---------------------------- MODULE Spec2Model ----------------------------
(***************************************************************************)
(* rig-core/src/agent/dynamic_info.rs: the two resolvers of an Agent,      *)
(* computing_context and computing_tools, as a state machine.              *)
(*                                                                         *)
(* A resolver call is one task.  It runs without interruption from one     *)
(* suspension point (.await) to the next, so there is one action for the   *)
(* call itself (it runs to its first .await or to its return) and one      *)
(* action for every way an awaited request can complete (the task then     *)
(* runs on to the next .await or to its return).                           *)
(***************************************************************************)
EXTENDS Naturals, Sequences, FiniteSets

(***************************************************************************)
(* Bounds of the model.                                                    *)
(***************************************************************************)
MaxSources == 2
MaxStatic == 2

Texts == {"q1", "q2"}
ToolNames == {"calculator", "search", "ghost"}
SampleCounts == {1, 2}

(***************************************************************************)
(* Values.                                                                 *)
(***************************************************************************)
None == [tag |-> "None"]
Some(v) == [tag |-> "Some", value |-> v]

Pending == [tag |-> "Pending"]
Ok(v) == [tag |-> "Ok", value |-> v]
Err(e) == [tag |-> "Err", error |-> e]

\* CompletionError::RequestError(Box<dyn Error>): the boxed error is kept.
RequestError(inner) == [variant |-> "RequestError", inner |-> inner]

Min(a, b) == IF a < b THEN a ELSE b

(***************************************************************************)
(* The prompt.  A Message either carries plain text or it does not.        *)
(***************************************************************************)
Prompts ==
    {[content |-> "text", text |-> t] : t \in Texts}
        \cup {[content |-> "image", text |-> "none"]}

rag_text(prompt) ==
    IF prompt.content = "text" THEN Some(prompt.text) ELSE None

(***************************************************************************)
(* A retrieval index.  Its contents are a ranked list of identifiers, each *)
(* stored with a payload; a broken index fails every query.  top_n and     *)
(* top_n_ids answer with at most n items, best first, as (score, id, doc)  *)
(* and (score, id) tuples.                                                 *)
(***************************************************************************)
Rankings ==
    { <<>>,
      <<"calculator">>,
      <<"search", "ghost">>,
      <<"ghost", "search">>,
      <<"search", "search">> }

Indexes ==
    {[items |-> r, fails |-> FALSE] : r \in Rankings}
        \cup {[items |-> <<>>, fails |-> TRUE]}

Payload(id) == [title |-> id]

Score(rank) == 100 - rank

top_n(index, query, n) ==
    IF index.fails
    THEN Err("VectorStoreError")
    ELSE Ok([r \in 1..Min(n, Len(index.items)) |->
                <<Score(r), index.items[r], Payload(index.items[r])>>])

top_n_ids(index, query, n) ==
    IF index.fails
    THEN Err("VectorStoreError")
    ELSE Ok([r \in 1..Min(n, Len(index.items)) |->
                <<Score(r), index.items[r]>>])

(***************************************************************************)
(* The agent: its configuration is fixed when it is built.                 *)
(***************************************************************************)
VARIABLES
    dynamic_context,    \* Agent::dynamic_context: <<num_sample, index>>, ordered
    dynamic_tools,      \* Agent::dynamic_tools:   <<num_sample, index>>, ordered
    static_tools,       \* Agent::static_tools: tool names, ordered
    tools,              \* Agent::tools: tool name -> the tool registered
    call,               \* the resolver call: its locals, its requests, its trace
    other,              \* a second call on the same agent, suspended meanwhile
    round,              \* the number of calls the caller has made
    prev                \* the outcome of the call before this one

agent == <<dynamic_context, dynamic_tools, static_tools, tools>>
vars ==
    <<dynamic_context, dynamic_tools, static_tools, tools, call, other, round, prev>>

Sources == SampleCounts \X Indexes

SeqsUpTo(S, n) == UNION {[1..m -> S] : m \in 0..n}

SourceLists == SeqsUpTo(Sources, MaxSources)
StaticLists == SeqsUpTo(ToolNames, MaxStatic)

Working(r) == [items |-> r, fails |-> FALSE]
Broken == [items |-> <<>>, fails |-> TRUE]

\* A few source lists and static lists, used where another part varies.
FewSourceLists ==
    { <<>>,
      << <<2, Working(<<"ghost", "search">>)>> >>,
      << <<1, Working(<<"calculator">>)>>, <<2, Broken>> >> }

FewStaticLists ==
    { <<>>, <<"calculator">>, <<"ghost", "calculator">> }

OneSourceList == << <<2, Working(<<"search", "ghost">>)>> >>

\* Agent::tools maps a name to the tool registered under it.
Registries == { [name \in {"calculator", "search"} |-> [name |-> name]] }

\* The agents the model is built with: every list of context sources, every
\* list of dynamic-tool sources and every static list, each with a few of
\* the others.
Agents ==
    (SourceLists \X {OneSourceList} \X {<<"calculator">>} \X Registries)
        \cup ({OneSourceList} \X SourceLists \X FewStaticLists \X Registries)
        \cup ({OneSourceList} \X FewSourceLists \X StaticLists \X Registries)

(***************************************************************************)
(* The call.  Its locals carry the source's names; inflight holds the      *)
(* requests issued and not yet completed, trace every request, response,   *)
(* registry lookup and warning of the call, in the order they happened.    *)
(***************************************************************************)
Fresh(fn, prompt) ==
    [ fn |-> fn, prompt |-> prompt, pc |-> "start", text |-> "",
      k |-> 0,                  \* position of the source being queried
      s |-> 0,                  \* position in static_tools (filter_map)
      docs |-> <<>>, j |-> 0,   \* the batch being folded, position in it
      static_tools |-> <<>>,    \* the local static_tools (line 74)
      acc |-> <<>>,             \* the accumulator of try_fold
      result |-> Pending,
      inflight |-> {}, trace |-> <<>> ]

Idle == [Fresh("none", [content |-> "image", text |-> "none"]) EXCEPT !.pc = "idle"]

Event(op, list, k, n, name, text) ==
    [op |-> op, list |-> list, k |-> k, n |-> n, name |-> name, text |-> text]

Emit(c, e) == [c EXCEPT !.trace = Append(@, e)]

\* A request is issued and the task suspends on it.
Await(c, pc, e) ==
    [c EXCEPT !.pc = pc, !.trace = Append(@, e), !.inflight = @ \cup {e}]

\* The request completes: the answer is handed to the task.
Delivered(c, req, outcome) ==
    [c EXCEPT !.inflight = @ \ {req},
              !.trace = Append(@, [req EXCEPT !.op = outcome])]

Return(c, r) == [c EXCEPT !.pc = "done", !.result = r]

SourceOf(req) ==
    IF req.list = "dynamic_context" THEN dynamic_context[req.k]
                                    ELSE dynamic_tools[req.k]

\* Mutant: a prompt without text is searched with the empty string.
ExtractTextOrEmpty(prompt) ==
    IF rag_text(prompt) = None THEN Some("") ELSE rag_text(prompt)

\* let prompt: Message = prompt.into(); prompt.rag_text()
ExtractText(prompt) == rag_text(prompt)

InvalidPrompt == Err(RequestError("Invalid prompt"))

\* Mutant: the fold starts from the accumulator of the concurrent call.
SharedFoldInit == other.acc

\* Mutant: the fold starts from the accumulator the last call left.
StaleFoldInit == call.acc

\* try_fold(vec![], ..)
FoldInit == <<>>

(***************************************************************************)
(* computing_context                                                       *)
(***************************************************************************)
\* serde_json::to_string_pretty(&doc): a JSON value always serializes.
to_string_pretty(doc) == Ok(<<"pretty", doc>>)

to_string(doc) == <<"display", doc>>

\* .map(|(_, id, doc)| Document { id, text, additional_props })
MakeDocument(item) ==
    LET pretty == to_string_pretty(item[3])
    IN  [ id |-> item[2],
          text |-> IF pretty.tag = "Ok" THEN pretty.value ELSE to_string(item[3]),
          additional_props |-> <<>> ]

\* Mutant: a batch is put in front of what was accumulated.
Prepend(acc, docs) == docs \o acc

\* acc.extend(docs)
Extend(acc, docs) == acc \o docs

\* Mutant: the query to the next source is issued along with this one.
QueryContextBuffered(c, k) ==
    LET first == Await([c EXCEPT !.k = k], "top_n",
                       Event("top_n", "dynamic_context", k,
                             dynamic_context[k][1], "", c.text))
    IN  IF k < Len(dynamic_context)
        THEN Await(first, "top_n",
                   Event("top_n", "dynamic_context", k + 1,
                         dynamic_context[k + 1][1], "", c.text))
        ELSE first

\* index.top_n(&text, *num_sample).await on source k
QueryContext(c, k) ==
    Await([c EXCEPT !.k = k], "top_n",
          Event("top_n", "dynamic_context", k, dynamic_context[k][1], "", c.text))

\* Mutant: at the end of the list the stream stays pending for ever.
NextContextSourceNeverEnds(c) ==
    IF c.k < Len(dynamic_context)
    THEN QueryContext(c, c.k + 1)
    ELSE [c EXCEPT !.pc = "top_n"]

\* The stream is polled for its next source; at its end the fold's value is
\* returned: Ok(dynamic_context).
NextContextSource(c) ==
    IF c.k < Len(dynamic_context)
    THEN QueryContext(c, c.k + 1)
    ELSE Return(c, Ok(c.acc))

StartContext(prompt) ==
    LET text == ExtractText(prompt)
        c == Fresh("computing_context", prompt)
    IN  IF text = None
        THEN Return(c, InvalidPrompt)
        ELSE NextContextSource([c EXCEPT !.text = text.value, !.acc = FoldInit])

\* .into_iter().map(..).collect::<Vec<_>>()
Documents(items) == [r \in 1..Len(items) |-> MakeDocument(items[r])]

\* The batch of one source is mapped to documents and folded into acc.
FoldContext(c, items) ==
    NextContextSource([c EXCEPT !.acc = Extend(@, Documents(items))])

(***************************************************************************)
(* computing_tools                                                         *)
(***************************************************************************)
\* self.tools.get(name)
Get(name) == IF name \in DOMAIN tools THEN Some(tools[name]) ELSE None

\* tool.definition(text.into()): the ToolDefinition the tool answers with.
Definition(tool, text) == [name |-> tool.name, prompt |-> text]

\* Mutant: a missing implementation is passed over in silence.
WarnNothing(c, name) == c

\* tracing::warn!("Tool implementation not found in toolset: {}", name)
Warn(c, name) == Emit(c, Event("warn", "", 0, 0, name, ""))

Lookup(c, name) == Emit(c, Event("get", "", 0, 0, name, ""))

\* tool.definition(text.into()).await
RequestDefinition(c, pc, name) ==
    Await(c, pc, Event("definition", "", 0, 0, name, c.text))

\* Mutant: the dynamic definitions come first.
ConcatReversed(static, dynamic) == dynamic \o static

\* Mutant: a dynamic definition the static pass already gave is left out.
ConcatDeduplicated(static, dynamic) ==
    static \o SelectSeq(dynamic,
                        LAMBDA d : \A i \in DOMAIN static : static[i] # d)

\* [static_tools, dynamic_tools].concat()
Concat(static, dynamic) == static \o dynamic

\* Mutant: the sources are asked for full items (top_n), not for identifiers.
QueryToolsFullForm(c, k) ==
    Await([c EXCEPT !.k = k], "top_n_ids",
          Event("top_n", "dynamic_tools", k, dynamic_tools[k][1], "", c.text))

\* Mutant: every source is asked for the first source's sample count.
QueryToolsFirstCount(c, k) ==
    Await([c EXCEPT !.k = k], "top_n_ids",
          Event("top_n_ids", "dynamic_tools", k, dynamic_tools[1][1], "", c.text))

\* index.top_n_ids(text, *num_sample).await on source k
QueryTools(c, k) ==
    Await([c EXCEPT !.k = k], "top_n_ids",
          Event("top_n_ids", "dynamic_tools", k, dynamic_tools[k][1], "", c.text))

\* The stream is polled for its next source; at its end the fold's value is
\* dynamic_tools and the call returns Ok([static_tools, dynamic_tools].concat()).
NextToolsSource(c) ==
    IF c.k < Len(dynamic_tools)
    THEN QueryTools(c, c.k + 1)
    ELSE Return(c, Ok(Concat(c.static_tools, c.acc)))

\* The fold closure from docs[j] on: it runs to its next definition request,
\* or to its end (Ok(acc)), where the stream is polled again.
RECURSIVE FoldTools(_), DynamicNotFound(_, _)

\* Mutant: a registered identifier is passed over, its definition not requested.
DynamicFoundUnrequested(c, doc) == FoldTools([c EXCEPT !.j = @ + 1])

\* if let Some(tool) = self.tools.get(&doc) { acc.push(tool.definition(..).await) }
DynamicFound(c, doc) == RequestDefinition(c, "dynamic_definition", doc)

\* Mutant: an unregistered identifier ends the loop over the batch.
DynamicNotFoundBreaks(c, doc) == NextToolsSource(Warn(c, doc))

\* else { tracing::warn!(..) }: the loop goes on with the next identifier
DynamicNotFound(c, doc) == FoldTools([Warn(c, doc) EXCEPT !.j = @ + 1])

FoldTools(c) ==
    IF c.j > Len(c.docs)
    THEN NextToolsSource(c)
    ELSE LET doc == c.docs[c.j]
         IN  IF Get(doc) # None
             THEN DynamicFound(Lookup(c, doc), doc)
             ELSE DynamicNotFound(Lookup(c, doc), doc)

\* The static pass is collected; the dynamic pass starts.
DynamicPass(c) == NextToolsSource([c EXCEPT !.k = 0, !.acc = FoldInit])

\* filter_map over self.static_tools from static_tools[s] on: it runs to its
\* next definition request, or to the end of the list.
RECURSIVE StaticPass(_), StaticNotFound(_, _)

\* Mutant: the definition is requested and the pass goes on without it.
StaticFoundEager(c, toolname) ==
    StaticPass([RequestDefinition(c, "static_definition", toolname)
                   EXCEPT !.s = @ + 1])

\* if let Some(tool) = self.tools.get(toolname) { Some(tool.definition(..).await) }
StaticFound(c, toolname) == RequestDefinition(c, "static_definition", toolname)

\* Mutant: an unregistered name ends the static pass.
StaticNotFoundStops(c, toolname) == DynamicPass(Warn(c, toolname))

\* Mutant: an unregistered name is an error of the call.
StaticNotFoundFails(c, toolname) ==
    Return(Warn(c, toolname), Err(RequestError("ToolNotFound")))

\* else { tracing::warn!(..); None }: filter_map goes on with the next name
StaticNotFound(c, toolname) == StaticPass([Warn(c, toolname) EXCEPT !.s = @ + 1])

StaticPass(c) ==
    IF c.s > Len(static_tools)
    THEN DynamicPass(c)
    ELSE LET toolname == static_tools[c.s]
         IN  IF Get(toolname) # None
             THEN StaticFound(Lookup(c, toolname), toolname)
             ELSE StaticNotFound(Lookup(c, toolname), toolname)

StartTools(prompt) ==
    LET text == ExtractText(prompt)
        c == Fresh("computing_tools", prompt)
    IN  IF text = None
        THEN Return(c, InvalidPrompt)
        ELSE StaticPass([c EXCEPT !.text = text.value, !.s = 1])

\* .map(|(_, id)| id).collect::<Vec<_>>()
Ids(items) == [r \in 1..Len(items) |-> items[r][2]]

\* Mutant: the error is swallowed and what was accumulated is returned.
FailPartial(c, e) == Return(c, Ok(Concat(c.static_tools, c.acc)))

\* Mutant: the failing source is skipped and the fan-out goes on.
FailAndContinue(c, e) ==
    IF c.fn = "computing_context" THEN NextContextSource(c)
                                  ELSE NextToolsSource(c)

\* .await.map_err(|e| CompletionError::RequestError(Box::new(e)))? : the
\* stream ends at its first Err, try_fold returns it and the call returns it
\* wrapped; acc and the local static_tools are not part of what is returned.
Fail(c, e) == Return(c, Err(RequestError(e)))

(***************************************************************************)
(* The caller.  It calls a resolver, and may call it again with the same   *)
(* prompt once the call has returned (MaxCalls calls at most).             *)
(***************************************************************************)
MaxCalls == 2

Callable(fn, prompt) ==
    \/ call.pc = "idle"
    \/ /\ call.pc = "done"
       /\ round < MaxCalls
       /\ call.fn = fn
       /\ call.prompt = prompt

Called ==
    /\ round' = round + 1
    /\ prev' = call.result
    /\ UNCHANGED <<agent, other>>

\* Mutant: a step of the call takes the names out of the static list.
ResumedDraining ==
    /\ static_tools' = <<>>
    /\ UNCHANGED <<dynamic_context, dynamic_tools, tools, other, round, prev>>

\* A step of a call: &self is only read.
Resumed == UNCHANGED <<agent, other, round, prev>>

Awaiting == {"top_n", "static_definition", "top_n_ids", "dynamic_definition"}

(***************************************************************************)
(* Actions                                                                 *)
(***************************************************************************)
Init ==
    /\ \E a \in Agents :
          /\ dynamic_context = a[1]
          /\ dynamic_tools = a[2]
          /\ static_tools = a[3]
          /\ tools = a[4]
    /\ call = Idle
    /\ other = Idle
    /\ round = 0
    /\ prev = Pending

ComputingContext(prompt) ==
    /\ Callable("computing_context", prompt)
    /\ call' = StartContext(prompt)
    /\ Called

ComputingTools(prompt) ==
    /\ Callable("computing_tools", prompt)
    /\ call' = StartTools(prompt)
    /\ Called

\* index.top_n(..).await? answers Ok(items)
TopNReturns(req) ==
    /\ call.pc = "top_n" /\ req.op = "top_n"
    /\ LET answer == top_n(SourceOf(req)[2], req.text, req.n)
       IN  /\ answer.tag = "Ok"
           /\ call' = FoldContext(Delivered(call, req, "ok"), answer.value)
    /\ Resumed

\* index.top_n(..).await? answers Err(e)
TopNFails(req) ==
    /\ call.pc = "top_n" /\ req.op = "top_n"
    /\ LET answer == top_n(SourceOf(req)[2], req.text, req.n)
       IN  /\ answer.tag = "Err"
           /\ call' = Fail(Delivered(call, req, "err"), answer.error)
    /\ Resumed

\* tool.definition(..).await of the static pass answers
StaticDefinitionReturns(req) ==
    /\ call.pc = "static_definition" /\ req.op = "definition"
    /\ LET definition == Definition(tools[req.name], req.text)
           c == Delivered(call, req, "defined")
       IN  call' = StaticPass([c EXCEPT !.static_tools = Append(@, definition),
                                        !.s = @ + 1])
    /\ Resumed

\* index.top_n_ids(..).await? answers Ok(items)
TopNIdsReturns(req) ==
    /\ call.pc = "top_n_ids" /\ req.op = "top_n_ids"
    /\ LET answer == top_n_ids(SourceOf(req)[2], req.text, req.n)
           c == Delivered(call, req, "ok")
       IN  /\ answer.tag = "Ok"
           /\ call' = FoldTools([c EXCEPT !.docs = Ids(answer.value), !.j = 1])
    /\ Resumed

\* index.top_n_ids(..).await? answers Err(e)
TopNIdsFails(req) ==
    /\ call.pc = "top_n_ids" /\ req.op = "top_n_ids"
    /\ LET answer == top_n_ids(SourceOf(req)[2], req.text, req.n)
       IN  /\ answer.tag = "Err"
           /\ call' = Fail(Delivered(call, req, "err"), answer.error)
    /\ Resumed

\* acc.push(tool.definition(..).await) of the fold answers
DynamicDefinitionReturns(req) ==
    /\ call.pc = "dynamic_definition" /\ req.op = "definition"
    /\ LET definition == Definition(tools[req.name], req.text)
           c == Delivered(call, req, "defined")
       IN  call' = FoldTools([c EXCEPT !.acc = Append(@, definition),
                                       !.j = @ + 1])
    /\ Resumed

\* The caller drops the future at a suspension point: the call and the
\* request it waits for are abandoned.
Drop ==
    /\ call.pc \in Awaiting
    /\ call' = [call EXCEPT !.pc = "dropped", !.inflight = {}]
    /\ Resumed

Next ==
    \/ \E prompt \in Prompts : ComputingContext(prompt)
    \/ \E prompt \in Prompts : ComputingTools(prompt)
    \/ \E req \in call.inflight : TopNReturns(req)
    \/ \E req \in call.inflight : TopNFails(req)
    \/ \E req \in call.inflight : StaticDefinitionReturns(req)
    \/ \E req \in call.inflight : TopNIdsReturns(req)
    \/ \E req \in call.inflight : TopNIdsFails(req)
    \/ \E req \in call.inflight : DynamicDefinitionReturns(req)
    \/ Drop

Spec == Init /\ [][Next]_vars

(***************************************************************************)
(* Every request of a call is answered in the end: the index answers a     *)
(* query and the tool a definition request, unless the call is dropped.    *)
(***************************************************************************)
Completes ==
    \E req \in call.inflight :
        \/ TopNReturns(req)
        \/ TopNFails(req)
        \/ StaticDefinitionReturns(req)
        \/ TopNIdsReturns(req)
        \/ TopNIdsFails(req)
        \/ DynamicDefinitionReturns(req)

\* The agents the calls are followed to their end on: lists of every length
\* over a few sources, one of them broken.
FewSources ==
    { <<1, Working(<<"calculator">>)>>,
      <<2, Working(<<"ghost", "search">>)>>,
      <<1, Working(<<>>)>>,
      <<2, Broken>> }

FewSourcesLists == SeqsUpTo(FewSources, MaxSources)

AgentsLive ==
    (FewSourcesLists \X {OneSourceList} \X {<<"calculator">>} \X Registries)
        \cup ({OneSourceList} \X FewSourcesLists \X FewStaticLists \X Registries)
        \cup ({OneSourceList} \X FewSourceLists \X StaticLists \X Registries)

InitLive ==
    /\ \E a \in AgentsLive :
          /\ dynamic_context = a[1]
          /\ dynamic_tools = a[2]
          /\ static_tools = a[3]
          /\ tools = a[4]
    /\ call = Idle
    /\ other = Idle
    /\ round = 0
    /\ prev = Pending

SpecLive == InitLive /\ [][Next]_vars /\ WF_vars(Completes)

(***************************************************************************)
(* Two calls on the same agent.  Each is a task of its own; the executor   *)
(* runs one of them from a suspension point to the next and may turn to    *)
(* the other at any suspension point.  call is the task it has turned to.  *)
(***************************************************************************)
FewAgents ==
    FewSourceLists \X FewSourceLists \X FewStaticLists \X Registries

InitConcurrent ==
    /\ \E a \in FewAgents :
          /\ dynamic_context = a[1]
          /\ dynamic_tools = a[2]
          /\ static_tools = a[3]
          /\ tools = a[4]
    /\ call = Idle
    /\ other = Idle
    /\ round = 0
    /\ prev = Pending

Switch ==
    /\ call' = other
    /\ other' = call
    /\ UNCHANGED <<agent, round, prev>>

NextConcurrent ==
    \/ \E prompt \in Prompts : ComputingContext(prompt)
    \/ \E prompt \in Prompts : ComputingTools(prompt)
    \/ \E req \in call.inflight : TopNReturns(req)
    \/ \E req \in call.inflight : TopNFails(req)
    \/ \E req \in call.inflight : StaticDefinitionReturns(req)
    \/ \E req \in call.inflight : TopNIdsReturns(req)
    \/ \E req \in call.inflight : TopNIdsFails(req)
    \/ \E req \in call.inflight : DynamicDefinitionReturns(req)
    \/ Drop
    \/ Switch

SpecConcurrent == InitConcurrent /\ [][NextConcurrent]_vars

(***************************************************************************)
(* What the properties read off a call.                                    *)
(***************************************************************************)
Valid == rag_text(call.prompt) # None

Done == call.pc = "done"

InContext == call.fn = "computing_context"

InTools == call.fn = "computing_tools"

IsQuery(e) == e.op \in {"top_n", "top_n_ids"}

\* Some source query of the call has failed.
QueryFailed == \E i \in DOMAIN call.trace : call.trace[i].op = "err"

Registered(names) == SelectSeq(names, LAMBDA name : name \in DOMAIN tools)

\* The identifiers the sources of a list answer with, source after source.
RECURSIVE ReturnedIds(_, _)
ReturnedIds(sources, text) ==
    IF sources = <<>>
    THEN <<>>
    ELSE LET answer == top_n_ids(Head(sources)[2], text, Head(sources)[1])
         IN  Ids(answer.value) \o ReturnedIds(Tail(sources), text)

\* The ids of the items the context sources answer with, source after source.
RECURSIVE ReturnedItemIds(_, _)
ReturnedItemIds(sources, text) ==
    IF sources = <<>>
    THEN <<>>
    ELSE LET answer == top_n(Head(sources)[2], text, Head(sources)[1])
         IN  Ids(answer.value) \o ReturnedItemIds(Tail(sources), text)

AllAnswer(sources) == \A k \in DOMAIN sources : ~sources[k][2].fails

DefinitionsOf(names) ==
    [i \in 1..Len(names) |-> [name |-> names[i], prompt |-> call.text]]

(***************************************************************************)
(* C1: a prompt whose rag_text() is None makes both resolvers return the   *)
(* "Invalid prompt" RequestError, and the call issues no index query, no   *)
(* registry lookup and no definition request, whatever the agent holds.    *)
(***************************************************************************)
C1_InvalidPromptNoIO ==
    (call.pc # "idle" /\ ~Valid) =>
        /\ Done
        /\ call.result = Err(RequestError("Invalid prompt"))
        /\ call.trace = <<>>
        /\ call.inflight = {}

C1_Witness ==
    /\ InTools /\ ~Valid /\ Done
    /\ static_tools # <<>> /\ dynamic_tools # <<>>

(***************************************************************************)
(* C2: when a source query fails the call returns one error and no output  *)
(* sequence: nothing accumulated before the failure, the static            *)
(* definitions included, is returned.                                      *)
(***************************************************************************)
C2_FailureReturnsOnlyError ==
    QueryFailed =>
        /\ Done
        /\ call.result = Err(RequestError("VectorStoreError"))
        /\ Cardinality({i \in DOMAIN call.trace : call.trace[i].op = "err"}) = 1

C2_Witness ==
    /\ InTools /\ QueryFailed /\ Done
    /\ call.static_tools # <<>>
    /\ call.acc # <<>>

(***************************************************************************)
(* C3: when all queries succeed, the ids of the documents computing_context*)
(* returns are the concatenation, in source-list order, of the ids each    *)
(* source answered with, in the order it answered them.                    *)
(***************************************************************************)
C3_ContextOrder ==
    (InContext /\ Valid /\ Done /\ AllAnswer(dynamic_context)) =>
        /\ call.result.tag = "Ok"
        /\ [i \in 1..Len(call.result.value) |-> call.result.value[i].id]
               = ReturnedItemIds(dynamic_context, call.text)

C3_Witness ==
    /\ InContext /\ Done /\ call.result.tag = "Ok"
    /\ Len(dynamic_context) = 2
    /\ Len(call.result.value) = 3
    /\ call.result.value[1].id # call.result.value[3].id

(***************************************************************************)
(* C4: a successful computing_tools returns the definitions of the         *)
(* registered static names, in static-list order, followed by those of the *)
(* registered retrieved identifiers, in source-then-returned order.        *)
(***************************************************************************)
C4_StaticBeforeDynamic ==
    (InTools /\ Done /\ call.result.tag = "Ok") =>
        call.result.value =
            DefinitionsOf(Registered(static_tools))
                \o DefinitionsOf(Registered(ReturnedIds(dynamic_tools, call.text)))

C4_Witness ==
    /\ InTools /\ Done /\ call.result.tag = "Ok"
    /\ Len(call.result.value) = 2
    /\ call.result.value[1].name = "calculator"
    /\ call.result.value[2].name = "search"
    /\ static_tools = <<"calculator">>

(***************************************************************************)
(* C5: once a source query has failed, the call issues no further query    *)
(* and requests no further definition: the failure is the last thing the   *)
(* call does, and no source after the failing one is ever queried.         *)
(***************************************************************************)
C5_FailFast ==
    \A i \in DOMAIN call.trace :
        call.trace[i].op = "err" =>
            /\ i = Len(call.trace)
            /\ call.inflight = {}
            /\ \A h \in DOMAIN call.trace :
                   IsQuery(call.trace[h]) => call.trace[h].k <= call.trace[i].k

C5_Witness ==
    /\ QueryFailed /\ Done
    /\ \E i \in DOMAIN call.trace :
           /\ call.trace[i].op = "err"
           /\ call.trace[i].list = "dynamic_tools"
           /\ call.trace[i].k < Len(dynamic_tools)

(***************************************************************************)
(* C6: a static name without a registry entry gives no output entry and no *)
(* error, and the registered names after it are still resolved: once the   *)
(* static pass is over its result holds the definition of every registered *)
(* static name, in list order, a successful call returns them first, and   *)
(* before any source is queried the call has not failed.                   *)
(***************************************************************************)
C6_StaticMissingSkipped ==
    (InTools /\ Valid) =>
        /\ call.pc \in {"top_n_ids", "dynamic_definition", "done"} =>
               call.static_tools = DefinitionsOf(Registered(static_tools))
        /\ (Done /\ call.result.tag = "Ok") =>
               SubSeq(call.result.value, 1, Len(Registered(static_tools)))
                   = DefinitionsOf(Registered(static_tools))
        /\ (\A i \in DOMAIN call.trace : ~IsQuery(call.trace[i])) =>
               call.result.tag # "Err"

C6_Witness ==
    /\ InTools /\ Done /\ call.result.tag = "Ok"
    /\ static_tools = <<"ghost", "calculator">>
    /\ call.result.value[1].name = "calculator"

(***************************************************************************)
(* C7: in the dynamic pass an identifier without a registry entry is       *)
(* omitted and aborts nothing: when every source answers, each source is   *)
(* queried, each returned identifier is looked up, in fan-out order, and   *)
(* the dynamic part of the output is the definitions of the registered     *)
(* ones, in that order.                                                    *)
(***************************************************************************)
C7_DynamicMissingSkipped ==
    (InTools /\ Valid /\ Done /\ AllAnswer(dynamic_tools)) =>
        LET returned == ReturnedIds(dynamic_tools, call.text)
            gets == SelectSeq(call.trace, LAMBDA e : e.op = "get")
            queries == SelectSeq(call.trace, LAMBDA e : e.op = "top_n_ids")
        IN  /\ call.result.tag = "Ok"
            /\ Len(queries) = Len(dynamic_tools)
            /\ [i \in 1..Len(gets) |-> gets[i].name] = static_tools \o returned
            /\ SubSeq(call.result.value, Len(call.static_tools) + 1,
                      Len(call.result.value))
                   = DefinitionsOf(Registered(returned))

C7_Witness ==
    /\ InTools /\ Done /\ call.result.tag = "Ok"
    /\ Len(dynamic_tools) = 2
    /\ dynamic_tools[1] = <<2, Working(<<"ghost", "search">>)>>
    /\ call.acc = DefinitionsOf(<<"search", "calculator">>)

(***************************************************************************)
(* C8, as claimed: whenever computing_tools returns an error, some         *)
(* dynamic-tool source query has failed in that call.                      *)
(***************************************************************************)
C8_OnlyQueryErrorAborts ==
    (InTools /\ Done /\ call.result.tag = "Err") => QueryFailed

(***************************************************************************)
(* C8, amended: whenever computing_tools returns an error, either the      *)
(* prompt has no text to search with (the error is "Invalid prompt" and    *)
(* nothing was requested) or some dynamic-tool source query has failed;    *)
(* missing names and identifiers leave the call successful.                *)
(***************************************************************************)
C8_InvalidPromptOrQueryError ==
    (InTools /\ Done) =>
        /\ call.result.tag \in {"Ok", "Err"}
        /\ call.result.tag = "Err" =>
               \/ ~Valid /\ call.result.error.inner = "Invalid prompt"
               \/ QueryFailed /\ call.result.error.inner = "VectorStoreError"

C8_Witness ==
    /\ InTools /\ Done /\ call.result.tag = "Err" /\ QueryFailed
    /\ \E i \in DOMAIN call.trace : call.trace[i].op = "warn"

(***************************************************************************)
(* C9: the source queries of a call are strictly sequential: they are      *)
(* issued in source-list order, the query to source i+1 only after the     *)
(* answer of source i, and at most one is in flight at any time.           *)
(***************************************************************************)
C9_QueriesSequential ==
    LET q == SelectSeq(call.trace,
                       LAMBDA e : e.op \in {"top_n", "top_n_ids", "ok", "err"})
        flying == {r \in call.inflight : IsQuery(r)}
    IN  /\ \A i \in DOMAIN q :
               IF i % 2 = 1
               THEN IsQuery(q[i]) /\ q[i].k = (i + 1) \div 2
               ELSE q[i].op \in {"ok", "err"} /\ q[i].k = i \div 2
        /\ Cardinality(flying) <= 1
        /\ \A r \in flying : Len(q) % 2 = 1 /\ r = q[Len(q)]

C9_Witness ==
    /\ InContext /\ Done /\ call.result.tag = "Ok"
    /\ Len(SelectSeq(call.trace, IsQuery)) = 2
    /\ call.result.value # <<>>

(***************************************************************************)
(* C10: a resolver called again with the same prompt, on the same agent,   *)
(* indexes and registry, returns the same outcome: the same error or the   *)
(* same output sequence, element for element.                              *)
(***************************************************************************)
C10_RepeatedCallSameOutcome ==
    (round >= 2 /\ Done) => call.result = prev

C10_Witness ==
    /\ round = 2 /\ Done
    /\ call.result.tag = "Ok"
    /\ Len(call.result.value) >= 2

(***************************************************************************)
(* The outcome of a call that runs alone, from the agent and the prompt.   *)
(***************************************************************************)
RECURSIVE ReturnedDocuments(_, _)
ReturnedDocuments(sources, text) ==
    IF sources = <<>>
    THEN <<>>
    ELSE LET answer == top_n(Head(sources)[2], text, Head(sources)[1])
             items == answer.value
         IN  [r \in 1..Len(items) |->
                 [ id |-> items[r][2],
                   text |-> <<"pretty", items[r][3]>>,
                   additional_props |-> <<>> ]]
                 \o ReturnedDocuments(Tail(sources), text)

DefinitionsFor(names, text) ==
    [i \in 1..Len(names) |-> [name |-> names[i], prompt |-> text]]

Alone(fn, prompt) ==
    LET text == rag_text(prompt)
    IN  IF text = None
        THEN Err(RequestError("Invalid prompt"))
        ELSE IF fn = "computing_context"
        THEN IF AllAnswer(dynamic_context)
             THEN Ok(ReturnedDocuments(dynamic_context, text.value))
             ELSE Err(RequestError("VectorStoreError"))
        ELSE IF AllAnswer(dynamic_tools)
             THEN Ok(DefinitionsFor(Registered(static_tools), text.value)
                        \o DefinitionsFor(
                               Registered(ReturnedIds(dynamic_tools, text.value)),
                               text.value))
             ELSE Err(RequestError("VectorStoreError"))

\* A call that runs alone returns Alone(fn, prompt).
AloneOutcome == Done => call.result = Alone(call.fn, call.prompt)

(***************************************************************************)
(* C11: two resolver calls that run concurrently on the same agent, under  *)
(* every interleaving of their suspension points, each return the outcome  *)
(* they return when run alone.                                             *)
(***************************************************************************)
C11_ConcurrentCallsIndependent ==
    /\ call.pc = "done" => call.result = Alone(call.fn, call.prompt)
    /\ other.pc = "done" => other.result = Alone(other.fn, other.prompt)

\* The tools call has returned while the context call, started before it
\* returned, is still suspended on a query.
C11_Witness ==
    /\ call.pc = "done" /\ call.fn = "computing_tools"
    /\ call.result.tag = "Ok" /\ Len(call.result.value) >= 2
    /\ other.pc = "top_n" /\ other.fn = "computing_context"
    /\ other.prompt # call.prompt

(***************************************************************************)
(* C12: a resolver call never modifies the agent: the context sources, the *)
(* dynamic-tool sources, the static list and the registry are the same     *)
(* after every step of a call, whether it goes on, returns Ok, returns Err *)
(* or is dropped by the caller at a suspension point.                      *)
(***************************************************************************)
C12_AgentUnchanged ==
    [][ /\ dynamic_context' = dynamic_context
        /\ dynamic_tools' = dynamic_tools
        /\ static_tools' = static_tools
        /\ tools' = tools ]_vars

C12_Witness ==
    /\ call.pc = "dropped" /\ InTools
    /\ call.static_tools # <<>>
    /\ \E i \in DOMAIN call.trace : call.trace[i].op = "ok"

(***************************************************************************)
(* C13: in a call with a valid prompt in which no query fails, every       *)
(* source of the resolver's list is queried exactly once, in list order,   *)
(* with that source's own sample count and with the text of the prompt.    *)
(***************************************************************************)
C13_EachSourceQueriedOnce ==
    LET sources == IF InContext THEN dynamic_context ELSE dynamic_tools
        list == IF InContext THEN "dynamic_context" ELSE "dynamic_tools"
        op == IF InContext THEN "top_n" ELSE "top_n_ids"
    IN  ((InContext \/ InTools) /\ Valid /\ Done /\ AllAnswer(sources)) =>
            SelectSeq(call.trace, IsQuery)
                = [k \in 1..Len(sources) |->
                      [ op |-> op, list |-> list, k |-> k,
                        n |-> sources[k][1], name |-> "",
                        text |-> rag_text(call.prompt).value ]]

C13_Witness ==
    /\ InTools /\ Done /\ call.result.tag = "Ok"
    /\ Len(dynamic_tools) = 2
    /\ dynamic_tools[1][1] # dynamic_tools[2][1]
    /\ call.prompt.text = "q2"

(***************************************************************************)
(* C14: within one computing_tools call the external requests are          *)
(* sequential: at most one request, index query or definition request, is  *)
(* outstanding at any time, each is answered before the next is issued,    *)
(* and the definitions are requested in the order in which they appear in  *)
(* the output.                                                             *)
(***************************************************************************)
C14_RequestsSequential ==
    InTools =>
        LET io == SelectSeq(call.trace,
                            LAMBDA e : e.op \in {"top_n", "top_n_ids", "definition",
                                                 "ok", "err", "defined"})
            requests == SelectSeq(call.trace, LAMBDA e : e.op = "definition")
        IN  /\ Cardinality(call.inflight) <= 1
            /\ \A i \in DOMAIN io :
                   IF i % 2 = 1
                   THEN io[i].op \in {"top_n", "top_n_ids", "definition"}
                   ELSE /\ io[i].op \in {"ok", "err", "defined"}
                        /\ [io[i] EXCEPT !.op = io[i - 1].op] = io[i - 1]
            /\ \A r \in call.inflight : Len(io) % 2 = 1 /\ r = io[Len(io)]
            /\ (Done /\ call.result.tag = "Ok") =>
                   [i \in 1..Len(requests) |-> requests[i].name]
                       = [i \in 1..Len(call.result.value) |->
                             call.result.value[i].name]

C14_Witness ==
    /\ InTools /\ Done /\ call.result.tag = "Ok"
    /\ Len(call.result.value) = 3
    /\ call.result.value[1].name # call.result.value[2].name
    /\ Len(SelectSeq(call.trace, IsQuery)) = 2

Unregistered(names) == SelectSeq(names, LAMBDA name : name \notin DOMAIN tools)

Names(events) == [i \in 1..Len(events) |-> events[i].name]

(***************************************************************************)
(* C15: a missing tool implementation shows only as a warning and an       *)
(* absent entry.  At any point of a computing_tools call there is one      *)
(* warning per lookup of an unregistered name and none for a registered    *)
(* one; a successful call has warned once for every static name and every  *)
(* returned identifier that is not registered, and a call that returns an  *)
(* error has had a source query fail.                                      *)
(***************************************************************************)
C15_MissingOnlyWarns ==
    (InTools /\ Valid) =>
        LET warned == Names(SelectSeq(call.trace, LAMBDA e : e.op = "warn"))
            looked == Names(SelectSeq(call.trace, LAMBDA e : e.op = "get"))
        IN  /\ warned = Unregistered(looked)
            /\ (Done /\ call.result.tag = "Ok") =>
                   /\ warned = Unregistered(static_tools)
                                   \o Unregistered(ReturnedIds(dynamic_tools, call.text))
                   /\ Len(warned) + Len(call.result.value)
                          = Len(static_tools)
                              + Len(ReturnedIds(dynamic_tools, call.text))
            /\ (Done /\ call.result.tag = "Err") => QueryFailed

C15_Witness ==
    /\ InTools /\ Done /\ call.result.tag = "Ok"
    /\ static_tools = <<"ghost", "calculator">>
    /\ Len(SelectSeq(call.trace, LAMBDA e : e.op = "warn")) = 2
    /\ Len(call.result.value) = 2

(***************************************************************************)
(* C16: in computing_tools the lookups and definition requests are         *)
(* interleaved with the fan-out.  When source k is queried, a definition   *)
(* has been requested, and answered, for every registered static name and  *)
(* for every registered identifier of the sources before k, and for        *)
(* nothing else; when that query fails these definitions are not returned. *)
(***************************************************************************)
C16_DefinitionsBeforeNextQuery ==
    InTools =>
        \A p \in DOMAIN call.trace :
            call.trace[p].op = "top_n_ids" =>
                LET before == SubSeq(call.trace, 1, p - 1)
                    earlier == SubSeq(dynamic_tools, 1, call.trace[p].k - 1)
                    due == Registered(static_tools)
                               \o Registered(ReturnedIds(earlier, call.text))
                IN  /\ Names(SelectSeq(before, LAMBDA e : e.op = "definition")) = due
                    /\ Names(SelectSeq(before, LAMBDA e : e.op = "defined")) = due
                    /\ (p < Len(call.trace) /\ call.trace[p + 1].op = "err") =>
                           call.result = Err(RequestError("VectorStoreError"))

C16_Witness ==
    /\ InTools /\ Done /\ call.result.tag = "Err"
    /\ Len(call.trace) >= 2
    /\ call.trace[Len(call.trace)].op = "err"
    /\ call.trace[Len(call.trace)].k = 2
    /\ Len(call.static_tools) = 1
    /\ Len(call.acc) = 1

(***************************************************************************)
(* C17: computing_tools removes no duplicate: every registered occurrence  *)
(* of a name in the static list and of an identifier in what the sources   *)
(* return gives one definition, so the output has as many definitions of a *)
(* tool as the tool has occurrences, and its length is the number of       *)
(* registered occurrences.                                                 *)
(***************************************************************************)
C17_NoDeduplication ==
    (InTools /\ Done /\ call.result.tag = "Ok") =>
        LET occurrences == static_tools \o ReturnedIds(dynamic_tools, call.text)
            out == call.result.value
        IN  /\ Len(out) = Len(Registered(occurrences))
            /\ \A name \in DOMAIN tools :
                   Cardinality({i \in DOMAIN out : out[i].name = name})
                       = Cardinality({i \in DOMAIN occurrences :
                                         occurrences[i] = name})

C17_Witness ==
    /\ InTools /\ Done /\ call.result.tag = "Ok"
    /\ static_tools = <<"calculator">>
    /\ Len(call.result.value) = 3
    /\ call.result.value[1] = call.result.value[2]
    /\ call.result.value[2] # call.result.value[3]

(***************************************************************************)
(* C18: the two resolvers touch disjoint inputs.  computing_context only   *)
(* sends top_n queries to the context sources: it looks nothing up in the  *)
(* registry, requests no definition, warns of nothing and queries no       *)
(* dynamic-tool source.  computing_tools only sends top_n_ids queries to   *)
(* the dynamic-tool sources and never queries a context source.            *)
(***************************************************************************)
C18_DisjointInputs ==
    \A i \in DOMAIN call.trace :
        LET e == call.trace[i]
        IN  /\ InContext =>
                   /\ e.op \in {"top_n", "ok", "err"}
                   /\ e.list = "dynamic_context"
                   /\ e.k \in DOMAIN dynamic_context
            /\ InTools =>
                   /\ e.op \in {"get", "warn", "definition", "defined",
                                 "top_n_ids", "ok", "err"}
                   /\ e.op \in {"top_n_ids", "ok", "err"} =>
                          /\ e.list = "dynamic_tools"
                          /\ e.k \in DOMAIN dynamic_tools

C18_Witness ==
    /\ InContext /\ Done /\ call.result.tag = "Ok"
    /\ call.result.value # <<>>
    /\ static_tools # <<>> /\ dynamic_tools # <<>>
    /\ call.static_tools = <<>>

(***************************************************************************)
(* C19: every resolver call whose requests are all answered finishes, and  *)
(* with one outcome: a suspended call goes on to return (or is dropped by  *)
(* the caller), a call that has returned holds Ok or Err and keeps it, and *)
(* a suspended call holds no outcome yet.  A call queries no source twice  *)
(* and at most as many sources as its list holds; with no source and an    *)
(* empty static list a valid prompt gives Ok of the empty sequence at      *)
(* once, with no query.                                                    *)
(***************************************************************************)
C19_OneOutcome ==
    LET queries == SelectSeq(call.trace, IsQuery)
        sources == IF InContext THEN dynamic_context ELSE dynamic_tools
    IN  /\ Done => call.result.tag \in {"Ok", "Err"}
        /\ call.pc \in Awaiting => call.result = Pending /\ call.inflight # {}
        /\ call.pc \in Awaiting \cup {"done", "dropped", "idle"}
        /\ Len(queries) <= Len(sources)
        /\ \A i, j \in DOMAIN queries : queries[i].k = queries[j].k => i = j
        /\ (InContext /\ Valid /\ dynamic_context = <<>>) =>
               Done /\ call.result = Ok(<<>>) /\ call.trace = <<>>
        /\ (InTools /\ Valid /\ dynamic_tools = <<>> /\ static_tools = <<>>) =>
               Done /\ call.result = Ok(<<>>) /\ call.trace = <<>>

C19_CallFinishes ==
    /\ []C19_OneOutcome
    /\ [][(Done /\ round' = round) => call' = call]_vars
    /\ (call.pc \in Awaiting) ~> (call.pc \in {"done", "dropped"})

C19_Witness ==
    /\ InTools /\ Valid /\ Done
    /\ dynamic_tools = <<>> /\ static_tools = <<>>
    /\ call.result = Ok(<<>>)
=============================================================================
